---- MODULE Spec2Model ----
(***************************************************************************)
(* State-machine model of the desktop-label overlay (mddskmgr):           *)
(* src/src/windows_main.rs (window procedure, message loop, watcher       *)
(* threads) and src/src/config.rs (configuration load / save / migrate).  *)
(***************************************************************************)
EXTENDS Integers, Sequences, FiniteSets, TLC

(***************************************************************************)
(* Bounds of the model.                                                    *)
(***************************************************************************)
\* posted cross-thread messages waiting in the window's message queue
MaxQueue == 1
\* file-change notifications on their way through the watcher channels
MaxChan == 1
\* modal edit prompts open at once (quick_edit re-entered from its own prompt)
MaxPrompts == 1

(***************************************************************************)
(* Values.                                                                 *)
(***************************************************************************)
Guids == {"g1", "g2"}
\* texts a user may confirm in the edit prompt
NewTexts == {"A"}
HkIds == {"HK_EDIT_TITLE", "HK_EDIT_DESC", "HK_TOGGLE"}

NoneV == <<>>
Some(x) == <<x>>

\* str::trim on the texts of the model: " " is all whitespace
Trim(s) == IF s = " " THEN "" ELSE s

\* str::eq_ignore_ascii_case on the key names of the model
eq_ignore_ascii_case(a, b) ==
    LET up(s) == IF s = "s" THEN "S" ELSE IF s = "l" THEN "L" ELSE s
    IN  up(a) = up(b)

(***************************************************************************)
(* config.rs: the configuration document.                                  *)
(***************************************************************************)
KeyChord(k) == [ctrl |-> TRUE, alt |-> TRUE, shift |-> FALSE, key |-> k]

DefaultLabel == [title |-> "", description |-> ""]

NoDesktops == [g \in {} |-> DefaultLabel]

default_snap_key == KeyChord("L")

DefaultAppearance ==
    [font_family |-> "Segoe UI", font_size_dip |-> 16, margin_px |-> 8,
     hide_on_fullscreen |-> FALSE]

ConfigDefault ==
    [desktops   |-> NoDesktops,
     hotkeys    |-> [edit_title       |-> KeyChord("T"),
                     edit_description |-> KeyChord("D"),
                     toggle_overlay   |-> KeyChord("O"),
                     snap_position    |-> KeyChord("L")],
     appearance |-> DefaultAppearance,
     version    |-> NoneV]

(***************************************************************************)
(* The file on disk.  A file is absent, or holds text; text is a JSON      *)
(* object (fields by name, the version as its JSON token) or is not JSON.  *)
(***************************************************************************)
NoDoc == [desktops |-> NoDesktops, hotkeys |-> <<>>, appearance |-> <<>>,
          version |-> "missing"]
FileAbsent == [kind |-> "absent", doc |-> NoDoc]
FileBad    == [kind |-> "bad", doc |-> NoDoc]
FileJson(d) == [kind |-> "json", doc |-> d]

RequiredHotkeys == {"edit_title", "edit_description", "toggle_overlay"}
RequiredAppearance == {"font_family", "font_size_dip", "margin_px"}

\* a serialisation that leaves the descriptions out
ToJson_titles_only(cfg) ==
    [desktops   |-> [g \in DOMAIN cfg.desktops |->
                        [cfg.desktops[g] EXCEPT !.description = ""]],
     hotkeys    |-> cfg.hotkeys,
     appearance |-> cfg.appearance,
     version    |-> IF cfg.version = NoneV THEN "null"
                    ELSE IF cfg.version = Some(0) THEN "0" ELSE "1"]

\* serde_json::to_vec_pretty(cfg): every field is written; None is null
ToJson(cfg) ==
    [desktops   |-> cfg.desktops,
     hotkeys    |-> cfg.hotkeys,
     appearance |-> cfg.appearance,
     version    |-> IF cfg.version = NoneV THEN "null"
                    ELSE IF cfg.version = Some(0) THEN "0" ELSE "1"]

\* serde_json::from_str succeeds: the text is JSON with the fields that have
\* no serde default
Parses(f) ==
    /\ f.kind = "json"
    /\ RequiredHotkeys \subseteq DOMAIN f.doc.hotkeys
    /\ RequiredAppearance \subseteq DOMAIN f.doc.appearance

\* serde_json::from_str::<Config>: the serde defaults fill what is missing
FromJson(d) ==
    [desktops   |-> d.desktops,
     hotkeys    |-> [edit_title       |-> d.hotkeys.edit_title,
                     edit_description |-> d.hotkeys.edit_description,
                     toggle_overlay   |-> d.hotkeys.toggle_overlay,
                     snap_position    |->
                         IF "snap_position" \in DOMAIN d.hotkeys
                         THEN d.hotkeys.snap_position ELSE default_snap_key],
     appearance |-> [font_family   |-> d.appearance.font_family,
                     font_size_dip |-> d.appearance.font_size_dip,
                     margin_px     |-> d.appearance.margin_px,
                     hide_on_fullscreen |->
                         IF "hide_on_fullscreen" \in DOMAIN d.appearance
                         THEN d.appearance.hide_on_fullscreen ELSE FALSE],
     version    |-> IF d.version \in {"missing", "null"} THEN NoneV
                    ELSE IF d.version = "0" THEN Some(0) ELSE Some(1)]

\* save_atomic: write the temporary file, rename it over the target.  A
\* failure (ok = FALSE) leaves the target as it was.
save_atomic(cfg, f, ok) == IF ok THEN FileJson(ToJson(cfg)) ELSE f

\* a load that migrates whatever the version is
load_or_default_any_version(f, old, ok1, ok2) ==
    LET c == IF Parses(f) THEN FromJson(f.doc) ELSE ConfigDefault
        m == [c EXCEPT !.hotkeys.snap_position.key =
                           IF eq_ignore_ascii_case(@, "S") THEN "L" ELSE @,
                       !.version = Some(1)]
    IN  [cfg |-> m, file |-> save_atomic(m, f, ok2),
         writes |-> IF ok2 THEN 1 ELSE 0]

\* load_or_default.  f: labels.json, old: labels.json of the old application
\* name, ok1/ok2: whether the two save_atomic calls succeed.  The result is
\* the configuration, the file afterwards and the number of successful writes.
load_or_default(f, old, ok1, ok2) ==
    LET first ==
            IF f.kind # "absent"
            THEN [cfg |-> IF Parses(f) THEN FromJson(f.doc) ELSE ConfigDefault,
                  file |-> f, writes |-> 0]
            ELSE IF old.kind # "absent" /\ Parses(old)
                 THEN [cfg |-> FromJson(old.doc),
                       file |-> save_atomic(FromJson(old.doc), f, ok1),
                       writes |-> IF ok1 THEN 1 ELSE 0]
                 ELSE [cfg |-> ConfigDefault, file |-> f, writes |-> 0]
        c == first.cfg
    IN  IF c.version = NoneV \/ c.version = Some(0)
        THEN LET m == [c EXCEPT
                         !.hotkeys.snap_position.key =
                             IF eq_ignore_ascii_case(@, "S") THEN "L" ELSE @,
                         !.version = Some(1)]
             IN  [cfg |-> m, file |-> save_atomic(m, first.file, ok2),
                  writes |-> first.writes + (IF ok2 THEN 1 ELSE 0)]
        ELSE first

(***************************************************************************)
(* The documents an external editor may put in labels.json, and the file   *)
(* the application's old name may have left behind.                        *)
(***************************************************************************)
DocA ==
    [desktops   |-> ("g1" :> [title |-> "A", description |-> ""]),
     hotkeys    |-> ConfigDefault.hotkeys,
     appearance |-> DefaultAppearance,
     version    |-> "1"]

\* written by hand for an old version: no version, no snap_position, no
\* hide_on_fullscreen, a blank title, and two hotkeys on the same chord
DocOld ==
    [desktops   |-> ("g2" :> [title |-> " ", description |-> "A"]),
     hotkeys    |-> [edit_title       |-> KeyChord("T"),
                     edit_description |-> KeyChord("T"),
                     toggle_overlay   |-> KeyChord("O")],
     appearance |-> [font_family |-> "Segoe UI", font_size_dip |-> 16,
                     margin_px |-> 8],
     version    |-> "missing"]

\* documents of every version with a snap-position key that the migration
\* replaces ("S", "s") or keeps ("X")
SnapKeys == {"S", "s", "X"}
VersionTokens == {"missing", "null", "0", "1"}

MigrationDoc(k, v) ==
    [desktops   |-> ("g1" :> [title |-> "A", description |-> ""]),
     hotkeys    |-> [ConfigDefault.hotkeys EXCEPT !.snap_position = KeyChord(k)],
     appearance |-> DefaultAppearance,
     version    |-> v]

MigrationFiles ==
    {FileJson(MigrationDoc(k, v)) : k \in SnapKeys, v \in VersionTokens}

ExternalFiles == {FileJson(DocA), FileJson(DocOld), FileBad}
InitialFiles == {FileAbsent, FileJson(DocA), FileBad}
OldFiles == {FileAbsent, FileJson(DocOld)}

\* chords that other applications hold when a registration is attempted
OtherAppKeys == {{}, {"T"}}

(***************************************************************************)
(* Hotkey registrations (mddskmgr::hotkeys over RegisterHotKey and         *)
(* UnregisterHotKey).  h.regs: the chord live under each identifier,       *)
(* h.log: the calls made by the running handler, h.dbl: an identifier was  *)
(* registered while its registration was live.                            *)
(***************************************************************************)
NoChord == [ctrl |-> FALSE, alt |-> FALSE, shift |-> FALSE, key |-> ""]
NoRegs == [i \in HkIds |-> NoChord]

hk_register(h, id, chord, taken) ==
    LET clash == chord.key \in taken \/ \E j \in HkIds : h.regs[j] = chord
    IN  [regs |-> IF clash THEN h.regs ELSE [h.regs EXCEPT ![id] = chord],
         log  |-> Append(h.log, <<"register", id>>),
         dbl  |-> h.dbl \/ h.regs[id] # NoChord]

hk_unregister(h, id) ==
    [regs |-> [h.regs EXCEPT ![id] = NoChord],
     log  |-> Append(h.log, <<"unregister", id>>),
     dbl  |-> h.dbl]

\* WM_CREATE: the three registrations
hk_create(h, hk, taken) ==
    LET h1 == hk_register(h, "HK_EDIT_TITLE", hk.edit_title, taken)
        h2 == hk_register(h1, "HK_EDIT_DESC", hk.edit_description, taken)
    IN  hk_register(h2, "HK_TOGGLE", hk.toggle_overlay, taken)

\* a reload that registers over the live registrations
hk_reload_keep(h, hk, taken) == hk_create(h, hk, taken)

\* WM_CFG_CHANGED: unregister the three identifiers, then register them
hk_reload(h, hk, taken) ==
    LET u1 == hk_unregister(h, "HK_EDIT_TITLE")
        u2 == hk_unregister(u1, "HK_EDIT_DESC")
        u3 == hk_unregister(u2, "HK_TOGGLE")
    IN  hk_create(u3, hk, taken)

\* mddskmgr::hotkeys::has_duplicates: two of the hotkeys share a chord
has_duplicates(hk) ==
    \/ hk.edit_title = hk.edit_description
    \/ hk.edit_title = hk.toggle_overlay
    \/ hk.edit_description = hk.toggle_overlay

\* WM_CFG_CHANGED: need_balloon is !(ok1 && ok2 && ok3), where ok is the
\* result of a registration made after the identifier was unregistered
need_balloon(h) == \E id \in HkIds : h.regs[id] = NoChord

\* WM_DESTROY: unregister the three identifiers
hk_destroy(h) ==
    hk_unregister(hk_unregister(hk_unregister(h, "HK_EDIT_TITLE"),
                                "HK_EDIT_DESC"), "HK_TOGGLE")

(***************************************************************************)
(* Rendering and visibility.                                               *)
(***************************************************************************)
\* a render that shows an empty title as it is
update_overlay_text_raw_title(c, guid) ==
    LET label == IF guid \in DOMAIN c.desktops THEN c.desktops[guid]
                 ELSE DefaultLabel
    IN  label.title \o ":" \o label.description

\* update_overlay_text: the line handed to the overlay
update_overlay_text(c, guid) ==
    LET label == IF guid \in DOMAIN c.desktops THEN c.desktops[guid]
                 ELSE DefaultLabel
        title == IF Trim(label.title) = "" THEN "Desktop" ELSE label.title
    IN  title \o ":" \o label.description

\* is_foreground_fullscreen.  Its inputs are what the platform answers:
\* win is GetForegroundWindow() (no window, the overlay, another window),
\* rectOk and rc the result of GetWindowRect, spiOk the result of
\* SystemParametersInfoW(SPI_GETWORKAREA) and work the primary work area.
\* The result of SystemParametersInfoW is discarded: when the call fails
\* the comparison is made with RECT::default().
Rect(l, t, r, b) == [left |-> l, top |-> t, right |-> r, bottom |-> b]

tol == 2

WorkArea == Rect(0, 0, 20, 10)

\* rectangles that cover the work area exactly, with every edge 2 inside,
\* with one edge 3 inside, from outside, and in part
WindowRects ==
    {Rect(0, 0, 20, 10), Rect(2, 2, 18, 8), Rect(3, 0, 20, 10),
     Rect(0, 3, 20, 10), Rect(0, 0, 17, 10), Rect(0, 0, 20, 7),
     Rect(0 - 1, 0 - 1, 21, 11), Rect(0, 0, 10, 5)}

Foreground(win, rectOk, rc, spiOk) ==
    [win |-> win, rectOk |-> rectOk, rc |-> rc, spiOk |-> spiOk,
     work |-> WorkArea]

NoForeground == Foreground("none", FALSE, Rect(0, 0, 0, 0), TRUE)

ForegroundInputs ==
    {NoForeground,
     Foreground("overlay", TRUE, Rect(0, 0, 20, 10), TRUE),
     Foreground("other", FALSE, Rect(0, 0, 0, 0), TRUE)}
    \cup {Foreground("other", TRUE, rc, TRUE) : rc \in WindowRects}
    \cup {Foreground("other", TRUE, rc, FALSE) :
              rc \in {Rect(0, 0, 20, 10), Rect(0, 0, 10, 5)}}

is_foreground_fullscreen(in) ==
    IF in.win = "none" \/ in.win = "overlay" THEN FALSE
    ELSE IF ~in.rectOk THEN FALSE
    ELSE LET work == IF in.spiOk THEN in.work ELSE Rect(0, 0, 0, 0)
         IN  /\ in.rc.left <= work.left + tol
             /\ in.rc.top <= work.top + tol
             /\ in.rc.right >= work.right - tol
             /\ in.rc.bottom >= work.bottom - tol

\* mddskmgr::core::should_show
should_show(user_visible, hidden_by_accessibility, hidden_for_fullscreen) ==
    user_visible /\ ~hidden_by_accessibility /\ ~hidden_for_fullscreen

\* a refresh that forgets the fullscreen reason
refresh_without_fullscreen(v, a, f) ==
    IF should_show(v, a, FALSE) THEN "SW_SHOW" ELSE "SW_HIDE"

\* a refresh that forgets the user's intent
refresh_without_user(v, a, f) ==
    IF should_show(TRUE, a, f) THEN "SW_SHOW" ELSE "SW_HIDE"

\* refresh_visibility_now: the command given to ShowWindow
refresh_visibility_now(v, a, f) ==
    IF should_show(v, a, f) THEN "SW_SHOW" ELSE "SW_HIDE"

(***************************************************************************)
(* State.                                                                  *)
(***************************************************************************)
VARIABLES
    pc,                      \* main: "start", "created", "running", "ended",
                             \*       "exited" (another instance), "panicked",
                             \*       "borrow_panic"
    hwndAlive,               \* the overlay window exists
    quitPosted,              \* PostQuitMessage was called
    queue,                   \* messages posted to the window by other threads
    prompts,                 \* open modal edit prompts: <<key, edit_title,
                             \*   borrow of APP held meanwhile>>
    cfg,                     \* AppState.cfg
    current_guid,            \* AppState.current_guid
    visible,                 \* AppState.visible
    hide_for_accessibility,  \* AppState.hide_for_accessibility
    hide_for_fullscreen,     \* AppState.hide_for_fullscreen
    vd_thread,               \* AppState.vd_thread is Some
    file,                    \* labels.json
    oldFile,                 \* labels.json of the old application name
    activeDesktop,           \* the platform's current virtual desktop
    highContrast,            \* the platform's high-contrast setting
    sessionLocked,           \* the platform's session is locked
    registered,              \* live hotkey registrations, by identifier
    regWhileLive,            \* an identifier was registered while live
    wts,                     \* session notifications are subscribed
    shown,                   \* the overlay window is shown
    rendered,                \* the line last handed to the overlay
    threads,                 \* watcher threads: "none", "running", "gone",
                             \*   "failed" (the watch was not set up)
    fsPending,               \* notifications waiting in watch_rx and rx
    deadPost,                \* WM_CFG_CHANGED was posted to a destroyed window
    second,                  \* main of a second invocation: "absent", "start",
                             \*   "passed" (the guard), "window", "exited"
    last                     \* what the last handled event did

vars == <<pc, hwndAlive, quitPosted, queue, prompts, cfg, current_guid, visible,
          hide_for_accessibility, hide_for_fullscreen, vd_thread, file, oldFile,
          activeDesktop, highContrast, sessionLocked, registered, regWhileLive, wts, shown,
          rendered, threads, fsPending, deadPost, second, last>>

appFlags == <<visible, hide_for_accessibility, hide_for_fullscreen>>
hkVars == <<registered, regWhileLive>>
envVars == <<oldFile, activeDesktop, highContrast, sessionLocked, second>>
loopVars == <<pc, hwndAlive, quitPosted>>
chanVars == <<threads, fsPending, deadPost>>

DeskKinds == {"WM_VD_SWITCHED", "WM_TIMER_1"}

NoEvent == [kind |-> "none", renders |-> 0, hk |-> <<>>, cmd |-> "none",
            seen |-> "-", again |-> FALSE, first |-> 0, balloon |-> FALSE,
            was |-> FALSE, fgOn |-> FALSE, fg |-> NoForeground]

\* a history that also keeps what the platform answered to the last
\* fullscreen tick
Watching == [NoEvent EXCEPT !.fgOn = TRUE]

\* the history is not kept in this behaviour
Unobserved == [NoEvent EXCEPT !.kind = "unobserved"]

\* History of the last handled event (it has no counterpart in the
\* program): the message, the render calls and hotkey calls the handler
\* made, the ShowWindow command it gave, the desktop it observed,
\* whether the event handled before it was a desktop signal that observed
\* the same desktop (or, for a reload, was a reload too), and if so the
\* render calls that event made.  The
\* field balloon tells whether the handler asked the tray for a balloon,
\* the field was whether the window was shown when the handler began.
Handled(kind, renders, hk, cmd, seen) ==
    IF last = Unobserved THEN last
    ELSE LET again == \/ /\ kind \in DeskKinds /\ last.kind \in DeskKinds
                         /\ last.seen = seen
                      \/ kind = "WM_CFG_CHANGED" /\ last.kind = kind
         IN  [kind |-> kind, renders |-> renders, hk |-> hk, cmd |-> cmd,
              seen |-> seen, again |-> again,
              first |-> IF again THEN last.renders ELSE 0,
              balloon |-> FALSE,
              was |-> shown,
              fgOn |-> last.fgOn,
              fg |-> NoForeground]

WithBalloon(event, b) ==
    IF event = Unobserved THEN event ELSE [event EXCEPT !.balloon = b]

WithForeground(event, in) ==
    IF event.fgOn THEN [event EXCEPT !.fg = in] ELSE event

Min(a, b) == IF a < b THEN a ELSE b

\* the window procedure runs: the window exists and a message loop (main's
\* or a prompt's) is dispatching
Dispatching == pc = "running" /\ hwndAlive

InitState(configs, files, history) ==
    /\ pc = "start"
    /\ hwndAlive = FALSE
    /\ quitPosted = FALSE
    /\ queue = <<>>
    /\ prompts = <<>>
    /\ cfg \in configs
    /\ current_guid = "g1"
    /\ visible = TRUE
    /\ hide_for_accessibility = FALSE
    /\ hide_for_fullscreen = FALSE
    /\ vd_thread = FALSE
    /\ file \in files
    /\ oldFile \in (IF file = FileAbsent THEN OldFiles ELSE {FileAbsent})
    /\ activeDesktop \in Guids
    /\ highContrast \in BOOLEAN
    /\ sessionLocked = FALSE
    /\ registered = NoRegs
    /\ regWhileLive = FALSE
    /\ wts = FALSE
    /\ shown = FALSE
    /\ rendered = "<nothing>"
    /\ threads = "none"
    /\ fsPending = 0
    /\ deadPost = FALSE
    /\ second = "absent"
    /\ last = history

InitFrom(files, history) == InitState({ConfigDefault}, files, history)

InitWith(history) == InitFrom(InitialFiles, history)

Init == InitWith(NoEvent)

(***************************************************************************)
(* main, up to the message loop.                                           *)
(***************************************************************************)
\* start_runtime_services, the first watcher thread: Watcher::new(..)
\* .expect("watcher") panics in the spawned thread, which ends that thread
\* alone and, its sender dropped, the second thread after it; a failure of
\* watcher.watch is discarded and leaves both threads waiting for
\* notifications that never come.  In both cases no WM_CFG_CHANGED is ever
\* posted.
watcher_thread(watchOk) == IF watchOk THEN "running" ELSE "failed"

\* a quick_edit that stops on a failed save
quick_edit_saved_expect(ok) == IF ok THEN "running" ELSE "panicked"

\* quick_edit: let _ = save_atomic(..) discards the result, and the handler
\* goes on to update_overlay_text and refresh_visibility_now
quick_edit_saved(ok) == "running"

\* single_instance_guard: FindWindowW finds a window of the class
\* "DesktopOverlayWndClass".  The window of the second invocation is one; any
\* other program's window of that class may or may not exist.
single_instance_guard == IF second = "window" THEN {TRUE} ELSE BOOLEAN

\* main: single_instance_guard, then CreateWindowExW, which runs WM_CREATE
\* (load the configuration, register the hotkeys, render) and
\* start_runtime_services (timers, session notifications, the accessibility
\* flag, refresh_visibility_now, the watcher threads).
MainCreateWindow ==
    /\ pc = "start"
    /\ \E other \in single_instance_guard, pathsOk \in BOOLEAN, ok1 \in BOOLEAN,
          ok2 \in BOOLEAN, taken \in OtherAppKeys, vdOk \in BOOLEAN,
          watchOk \in BOOLEAN :
         IF other
         THEN /\ pc' = "exited"
              /\ UNCHANGED <<hwndAlive, quitPosted, queue, prompts, cfg,
                             current_guid, appFlags, vd_thread, file, envVars,
                             hkVars, wts, shown, rendered, chanVars, last>>
         ELSE IF ~pathsOk
         THEN /\ pc' = "panicked"
              /\ UNCHANGED <<hwndAlive, quitPosted, queue, prompts, cfg,
                             current_guid, appFlags, vd_thread, file, envVars,
                             hkVars, wts, shown, rendered, chanVars, last>>
         ELSE LET ld == load_or_default(file, oldFile, ok1, ok2)
                  h == hk_create([regs |-> registered, log |-> <<>>,
                                  dbl |-> regWhileLive], ld.cfg.hotkeys, taken)
                  cmd == refresh_visibility_now(TRUE, highContrast, FALSE)
              IN  /\ pc' = "created"
                  /\ hwndAlive' = TRUE
                  /\ cfg' = ld.cfg
                  /\ file' = ld.file
                  /\ registered' = h.regs
                  /\ regWhileLive' = h.dbl
                  /\ current_guid' = activeDesktop
                  /\ vd_thread' = vdOk
                  /\ rendered' = update_overlay_text(ld.cfg, activeDesktop)
                  /\ visible' = TRUE
                  /\ hide_for_fullscreen' = FALSE
                  /\ wts' = TRUE
                  /\ hide_for_accessibility' = highContrast
                  /\ shown' = (cmd = "SW_SHOW")
                  /\ threads' = watcher_thread(watchOk)
                  /\ last' = WithBalloon(
                                Handled("WM_CREATE", 1, h.log, cmd, "-"),
                                has_duplicates(ld.cfg.hotkeys))
                  /\ UNCHANGED <<quitPosted, queue, prompts, envVars,
                                 fsPending, deadPost>>

\* main: ShowWindow(hwnd, SW_SHOW) after CreateWindowExW returned
MainShowWindow ==
    /\ pc = "created"
    /\ pc' = "running"
    /\ shown' = TRUE
    /\ UNCHANGED <<hwndAlive, quitPosted, queue, prompts, cfg, current_guid,
                   appFlags, vd_thread, file, envVars, hkVars, wts, rendered,
                   chanVars, last>>

(***************************************************************************)
(* A second invocation of the program: the same main in another process,   *)
(* followed up to the creation of its window.                              *)
(***************************************************************************)
\* the user starts the program again
SecondStart ==
    /\ pc \in {"start", "created", "running"}
    /\ second = "absent"
    /\ second' = "start"
    /\ UNCHANGED <<loopVars, queue, prompts, cfg, current_guid, appFlags,
                   vd_thread, file, oldFile, activeDesktop, highContrast,
                   sessionLocked, hkVars, wts, shown, rendered, chanVars, last>>

\* main of the second invocation: single_instance_guard; it returns when
\* FindWindowW finds the window of the first
SecondGuard ==
    /\ second = "start"
    /\ second' = IF hwndAlive THEN "exited" ELSE "passed"
    /\ UNCHANGED <<loopVars, queue, prompts, cfg, current_guid, appFlags,
                   vd_thread, file, oldFile, activeDesktop, highContrast,
                   sessionLocked, hkVars, wts, shown, rendered, chanVars, last>>

\* main of the second invocation: CreateWindowExW; its WM_CREATE loads the
\* configuration, which may write labels.json, and creates its own overlay
SecondCreateWindow ==
    /\ second = "passed"
    /\ \E pathsOk \in BOOLEAN, ok1 \in BOOLEAN, ok2 \in BOOLEAN :
         IF pathsOk
         THEN /\ second' = "window"
              /\ file' = load_or_default(file, oldFile, ok1, ok2).file
         ELSE /\ second' = "exited"
              /\ file' = file
    /\ UNCHANGED <<loopVars, queue, prompts, cfg, current_guid, appFlags,
                   vd_thread, oldFile, activeDesktop, highContrast,
                   sessionLocked, hkVars, wts, shown, rendered, chanVars, last>>

\* main: GetMessageW returns 0 for WM_QUIT, which the system produces once
\* no posted message is waiting; main returns and the process ends
MessageLoopQuit ==
    /\ pc = "running"
    /\ quitPosted
    /\ queue = <<>>
    /\ prompts = <<>>
    /\ pc' = "ended"
    /\ threads' = "gone"
    /\ UNCHANGED <<hwndAlive, quitPosted, queue, prompts, cfg, current_guid,
                   appFlags, vd_thread, file, envVars, hkVars, wts, shown,
                   rendered, fsPending, deadPost, last>>

(***************************************************************************)
(* The window procedure.  Each action is one message handled to its end.   *)
(***************************************************************************)
\* a borrow of APP that is outstanding while ui::prompt_text runs
quick_edit_borrow_held(edit_title) == "mut"

\* quick_edit: the snapshot is taken inside a closure that ends before
\* ui::prompt_text is called, so no borrow of APP is outstanding while the
\* prompt runs its message loop
quick_edit_borrow(edit_title) == "none"

\* a borrow of APP is outstanding below the running code
BorrowOutstanding == \E i \in 1..Len(prompts) : prompts[i][3] # "none"

\* RefCell::borrow / borrow_mut panics on the conflicting borrow
BorrowPanic ==
    /\ pc' = "borrow_panic"
    /\ UNCHANGED <<hwndAlive, quitPosted, queue, prompts, cfg, current_guid,
                   appFlags, vd_thread, file, envVars, hkVars, wts, shown,
                   rendered, chanVars, last>>

\* The window procedure is entered (for any message but WM_CREATE it first
\* borrows APP to compare the message with taskbar_created_msg, then the
\* handler borrows it mutably); quick_edit borrows it mutably after the
\* prompt returned.
WndProc(handler) == IF BorrowOutstanding THEN BorrowPanic ELSE handler

H0 == [regs |-> registered, log |-> <<>>, dbl |-> regWhileLive]

\* a desktop signal that moves current_guid without rendering
vd_switched_no_render(guid, c, id, r) ==
    [guid |-> id, rendered |-> r, renders |-> 0]

\* a desktop signal that renders whether or not the desktop changed
vd_switched_always_render(guid, c, id, r) ==
    [guid |-> id, rendered |-> update_overlay_text(c, id), renders |-> 1]

\* WM_VD_SWITCHED and WM_TIMER with id 1: id is vd::get_current_desktop_guid()
vd_switched(guid, c, id, r) ==
    IF id # guid
    THEN [guid |-> id, rendered |-> update_overlay_text(c, id), renders |-> 1]
    ELSE [guid |-> guid, rendered |-> r, renders |-> 0]

\* WM_WTSSESSION_CHANGE: 0x7 is lock, 0x8 is unlock; hc is is_high_contrast()
session_change(code, hidden, hc) ==
    IF code = "lock" THEN TRUE ELSE IF code = "unlock" THEN hc ELSE hidden

\* the session notifications the platform can send: a lock when the session
\* is unlocked, an unlock when it is locked, any other code at any time
SessionCodes ==
    {IF sessionLocked THEN "unlock" ELSE "lock", "other"}

\* an edit applied to the desktop that is current when the prompt returns
quick_edit_key_current(snapshot, guid) == guid

\* quick_edit after the prompt: entry(key) takes the key of the snapshot,
\* whatever app.current_guid is by then
quick_edit_key(snapshot, guid) == snapshot[1]

\* a merge that writes a fresh label holding the new text alone
quick_edit_merge_fresh_label(c, key, edit_title, newtext) ==
    LET new == IF edit_title THEN [DefaultLabel EXCEPT !.title = newtext]
               ELSE [DefaultLabel EXCEPT !.description = newtext]
    IN  [c EXCEPT !.desktops =
            [g \in (DOMAIN c.desktops) \cup {key} |->
                IF g = key THEN new ELSE c.desktops[g]]]

\* quick_edit, after the prompt returned newtext: the entry of the
\* snapshotted key is created if absent and one field of it is replaced
quick_edit_merge(c, key, edit_title, newtext) ==
    LET entry == IF key \in DOMAIN c.desktops THEN c.desktops[key]
                 ELSE DefaultLabel
        new == IF edit_title THEN [entry EXCEPT !.title = newtext]
               ELSE [entry EXCEPT !.description = newtext]
    IN  [c EXCEPT !.desktops =
            [g \in (DOMAIN c.desktops) \cup {key} |->
                IF g = key THEN new ELSE c.desktops[g]]]

\* the file system notifies the watcher of n writes of labels.json
Notified(n) ==
    IF threads = "running" THEN Min(MaxChan, fsPending + n) ELSE fsPending

WmVdSwitched ==
    /\ Dispatching
    /\ WndProc(
        /\ queue # <<>>
        /\ Head(queue) = "WM_VD_SWITCHED"
        /\ queue' = Tail(queue)
        /\ LET r == vd_switched(current_guid, cfg, activeDesktop, rendered)
           IN  /\ current_guid' = r.guid
               /\ rendered' = r.rendered
               /\ last' = Handled("WM_VD_SWITCHED", r.renders, <<>>, "none",
                                  activeDesktop)
        /\ UNCHANGED <<loopVars, prompts, cfg, appFlags, vd_thread, file, envVars,
                       hkVars, wts, shown, chanVars>>)

WmCfgChanged ==
    /\ Dispatching
    /\ WndProc(
        /\ queue # <<>>
        /\ Head(queue) = "WM_CFG_CHANGED"
        /\ queue' = Tail(queue)
        /\ \E ok1 \in BOOLEAN, ok2 \in BOOLEAN, taken \in OtherAppKeys :
             LET ld == load_or_default(file, oldFile, ok1, ok2)
                 h == hk_reload(H0, ld.cfg.hotkeys, taken)
             IN  /\ cfg' = ld.cfg
                 /\ file' = ld.file
                 /\ fsPending' = Notified(ld.writes)
                 /\ registered' = h.regs
                 /\ regWhileLive' = h.dbl
                 /\ rendered' = update_overlay_text(ld.cfg, current_guid)
                 /\ last' = WithBalloon(
                               Handled("WM_CFG_CHANGED", 1, h.log, "none", "-"),
                               need_balloon(h))
        /\ UNCHANGED <<loopVars, prompts, current_guid, appFlags, vd_thread,
                       envVars, wts, shown, threads, deadPost>>)

\* timer messages are produced only when nothing else is waiting
TimerDue == Dispatching /\ queue = <<>> /\ ~quitPosted

\* start_runtime_services sets timer 1 (the desktop poll) only when the
\* desktop event thread could not be started
PollTimer == hwndAlive /\ ~vd_thread

WmTimer1 ==
    /\ TimerDue
    /\ WndProc(
        /\ PollTimer
        /\ LET r == vd_switched(current_guid, cfg, activeDesktop, rendered)
           IN  /\ current_guid' = r.guid
               /\ rendered' = r.rendered
               /\ last' = Handled("WM_TIMER_1", r.renders, <<>>, "none",
                                  activeDesktop)
        /\ UNCHANGED <<loopVars, queue, prompts, cfg, appFlags, vd_thread, file,
                       envVars, hkVars, wts, shown, chanVars>>)

\* WM_TIMER with id 2: hide is is_foreground_fullscreen(app)
WmTimer2 ==
    /\ TimerDue
    /\ WndProc(
        /\ \E in \in ForegroundInputs :
             LET hide == is_foreground_fullscreen(in)
                 cmd == refresh_visibility_now(visible, hide_for_accessibility, hide)
             IN  /\ hide_for_fullscreen' = hide
                 /\ shown' = (cmd = "SW_SHOW")
                 /\ last' = WithForeground(
                               Handled("WM_TIMER_2", 0, <<>>, cmd, "-"), in)
        /\ UNCHANGED <<loopVars, queue, prompts, cfg, current_guid, visible,
                       hide_for_accessibility, vd_thread, file, envVars, hkVars,
                       wts, rendered, chanVars>>)

WmSettingChange ==
    /\ Dispatching
    /\ WndProc(
        /\ LET cmd == refresh_visibility_now(visible, highContrast,
                                             hide_for_fullscreen)
           IN  /\ hide_for_accessibility' = highContrast
               /\ shown' = (cmd = "SW_SHOW")
               /\ last' = Handled("WM_SETTINGCHANGE", 0, <<>>, cmd, "-")
        /\ UNCHANGED <<loopVars, queue, prompts, cfg, current_guid, visible,
                       hide_for_fullscreen, vd_thread, file, envVars, hkVars, wts,
                       rendered, chanVars>>)

WmWtsSessionChange ==
    /\ Dispatching
    /\ WndProc(
        /\ wts
        /\ \E code \in SessionCodes :
             LET hidden == session_change(code, hide_for_accessibility,
                                          highContrast)
                 cmd == refresh_visibility_now(visible, hidden, hide_for_fullscreen)
             IN  /\ sessionLocked' = IF code = "other" THEN sessionLocked
                                      ELSE code = "lock"
                 /\ hide_for_accessibility' = hidden
                 /\ shown' = (cmd = "SW_SHOW")
                 /\ last' = Handled("WTS_" \o code, 0, <<>>, cmd, "-")
        /\ UNCHANGED <<loopVars, queue, prompts, cfg, current_guid, visible,
                       hide_for_fullscreen, vd_thread, file, oldFile, activeDesktop,
                       highContrast, second, hkVars, wts, rendered, chanVars>>)

\* HK_TOGGLE and CMD_TOGGLE
Toggle(kind) ==
    LET cmd == refresh_visibility_now(~visible, hide_for_accessibility,
                                      hide_for_fullscreen)
    IN  /\ visible' = ~visible
        /\ shown' = (cmd = "SW_SHOW")
        /\ last' = Handled(kind, 0, <<>>, cmd, "-")
        /\ UNCHANGED <<loopVars, queue, prompts, cfg, current_guid,
                       hide_for_accessibility, hide_for_fullscreen, vd_thread,
                       file, envVars, hkVars, wts, rendered, chanVars>>

\* quick_edit up to ui::prompt_text: the snapshot is taken, the prompt opens
\* and runs its own message loop
QuickEditOpen(edit_title) ==
    /\ Len(prompts) < MaxPrompts
    /\ prompts' = Append(prompts, <<current_guid, edit_title,
                                    quick_edit_borrow(edit_title)>>)
    /\ UNCHANGED <<loopVars, queue, cfg, current_guid, appFlags, vd_thread,
                   file, envVars, hkVars, wts, shown, rendered, chanVars, last>>

\* WM_HOTKEY arrives for an identifier whose registration is live
WmHotkeyEdit ==
    /\ Dispatching
    /\ WndProc(
        /\ \E edit_title \in BOOLEAN :
             /\ registered[IF edit_title THEN "HK_EDIT_TITLE" ELSE "HK_EDIT_DESC"]
                    # NoChord
             /\ QuickEditOpen(edit_title))

WmHotkeyToggle ==
    /\ Dispatching
    /\ WndProc(
        /\ registered["HK_TOGGLE"] # NoChord
        /\ Toggle("WM_HOTKEY_TOGGLE"))

\* TRAY_MSG with WM_LBUTTONDBLCLK
TrayDoubleClick ==
    /\ Dispatching
    /\ WndProc(
        /\ LET cmd == refresh_visibility_now(TRUE, hide_for_accessibility,
                                             hide_for_fullscreen)
           IN  /\ visible' = TRUE
               /\ shown' = (cmd = "SW_SHOW")
               /\ last' = Handled("TRAY_DBLCLK", 0, <<>>, cmd, "-")
        /\ UNCHANGED <<loopVars, queue, prompts, cfg, current_guid,
                       hide_for_accessibility, hide_for_fullscreen, vd_thread,
                       file, envVars, hkVars, wts, rendered, chanVars>>)

WmCommandEdit ==
    /\ Dispatching
    /\ WndProc(
        /\ \E edit_title \in BOOLEAN : QuickEditOpen(edit_title))

WmCommandToggle ==
    /\ Dispatching
    /\ WndProc(
        /\ Toggle("CMD_TOGGLE"))

\* CMD_EXIT: PostQuitMessage(0) and nothing else
WmCommandExit ==
    /\ Dispatching
    /\ WndProc(
        /\ quitPosted' = TRUE
        /\ last' = Handled("CMD_EXIT", 0, <<>>, "none", "-")
        /\ UNCHANGED <<pc, hwndAlive, queue, prompts, cfg, current_guid, appFlags,
                       vd_thread, file, envVars, hkVars, wts, shown, rendered,
                       chanVars>>)

\* ui::prompt_text returns: None on cancel (and when the owner window is
\* gone), Some(newtext) on confirmation; ok: save_atomic succeeds
PromptReturn ==
    /\ pc = "running"
    /\ WndProc(
        /\ prompts # <<>>
        /\ LET top == prompts[Len(prompts)]
           IN  \E confirmed \in BOOLEAN, newtext \in NewTexts, ok \in BOOLEAN :
                 /\ confirmed => hwndAlive
                 /\ prompts' = SubSeq(prompts, 1, Len(prompts) - 1)
                 /\ IF confirmed
                    THEN LET key == quick_edit_key(top, current_guid)
                             c == quick_edit_merge(cfg, key, top[2], newtext)
                             cmd == refresh_visibility_now(visible,
                                        hide_for_accessibility, hide_for_fullscreen)
                         IN  /\ pc' = quick_edit_saved(ok)
                             /\ cfg' = c
                             /\ file' = save_atomic(c, file, ok)
                             /\ fsPending' = Notified(IF ok THEN 1 ELSE 0)
                             /\ rendered' = update_overlay_text(c, current_guid)
                             /\ shown' = (cmd = "SW_SHOW")
                             /\ last' = Handled("EDIT_CONFIRMED", 1, <<>>, cmd, key)
                    ELSE /\ last' = Handled("EDIT_CANCELLED", 0, <<>>, "none", "-")
                         /\ UNCHANGED <<pc, cfg, file, fsPending, rendered, shown>>
        /\ UNCHANGED <<hwndAlive, quitPosted, queue, current_guid, appFlags,
                       vd_thread, envVars, hkVars, wts, threads, deadPost>>)

\* The window is destroyed (DefWindowProcW answers WM_CLOSE with
\* DestroyWindow): WM_DESTROY is handled, then the system removes the
\* window, its timers and the messages posted to it.
WmDestroy ==
    /\ Dispatching
    /\ WndProc(
        /\ LET h == hk_destroy(H0)
           IN  /\ registered' = h.regs
               /\ regWhileLive' = h.dbl
               /\ last' = Handled("WM_DESTROY", 0, h.log, "none", "-")
        /\ wts' = FALSE
        /\ quitPosted' = TRUE
        /\ hwndAlive' = FALSE
        /\ queue' = <<>>
        /\ shown' = FALSE
        /\ UNCHANGED <<pc, prompts, cfg, current_guid, appFlags, vd_thread, file,
                       envVars, rendered, chanVars>>)

(***************************************************************************)
(* The platform, the other threads and the external editor.                *)
(***************************************************************************)
SwitchDesktop ==
    /\ pc = "running"
    /\ \E g \in Guids \ {activeDesktop} : activeDesktop' = g
    /\ UNCHANGED <<loopVars, queue, prompts, cfg, current_guid, appFlags,
                   vd_thread, file, oldFile, highContrast, sessionLocked, second,
                   hkVars, wts, shown, rendered, chanVars, last>>

ToggleHighContrast ==
    /\ pc = "running"
    /\ highContrast' = ~highContrast
    /\ UNCHANGED <<loopVars, queue, prompts, cfg, current_guid, appFlags,
                   vd_thread, file, oldFile, activeDesktop, sessionLocked, second,
                   hkVars, wts, shown, rendered, chanVars, last>>

\* the desktop event thread (or the poller thread) posts WM_VD_SWITCHED
VdNotify ==
    /\ Dispatching
    /\ Len(queue) < MaxQueue
    /\ queue' = Append(queue, "WM_VD_SWITCHED")
    /\ UNCHANGED <<loopVars, prompts, cfg, current_guid, appFlags, vd_thread,
                   file, envVars, hkVars, wts, shown, rendered, chanVars, last>>

\* an editor replaces labels.json; the watcher is notified
ExternalEdit ==
    /\ pc = "running"
    /\ threads = "running" => fsPending < MaxChan
    /\ \E f \in ExternalFiles \ {file} : file' = f
    /\ fsPending' = Notified(1)
    /\ UNCHANGED <<loopVars, queue, prompts, cfg, current_guid, appFlags,
                   vd_thread, envVars, hkVars, wts, shown, rendered, threads,
                   deadPost, last>>

\* the file system reports one write of labels.json by more than one event:
\* another notification reaches watch_rx although the file has not changed
Burst ==
    /\ pc = "running"
    /\ threads = "running"
    /\ fsPending < MaxChan
    /\ fsPending' = Notified(1)
    /\ UNCHANGED <<loopVars, queue, prompts, cfg, current_guid, appFlags,
                   vd_thread, file, envVars, hkVars, wts, shown, rendered,
                   threads, deadPost, last>>

\* The watcher threads.  The first takes a notification from watch_rx and
\* sends a unit to rx; the second takes the unit and posts WM_CFG_CHANGED to
\* the window handle it was given, whether or not the window still exists.
WatcherThreads ==
    /\ threads = "running"
    /\ fsPending > 0
    /\ hwndAlive => Len(queue) < MaxQueue
    /\ fsPending' = fsPending - 1
    /\ IF hwndAlive
       THEN queue' = Append(queue, "WM_CFG_CHANGED") /\ UNCHANGED deadPost
       ELSE deadPost' = TRUE /\ UNCHANGED queue
    /\ UNCHANGED <<loopVars, prompts, cfg, current_guid, appFlags, vd_thread,
                   file, envVars, hkVars, wts, shown, rendered, threads, last>>

Next ==
    \/ MainCreateWindow
    \/ MainShowWindow
    \/ MessageLoopQuit
    \/ WmVdSwitched
    \/ WmCfgChanged
    \/ WmTimer1
    \/ WmTimer2
    \/ WmSettingChange
    \/ WmWtsSessionChange
    \/ WmHotkeyEdit
    \/ WmHotkeyToggle
    \/ TrayDoubleClick
    \/ WmCommandEdit
    \/ WmCommandToggle
    \/ WmCommandExit
    \/ PromptReturn
    \/ WmDestroy
    \/ SwitchDesktop
    \/ ToggleHighContrast
    \/ VdNotify
    \/ ExternalEdit
    \/ WatcherThreads
    \/ Burst
    \/ SecondStart
    \/ SecondGuard
    \/ SecondCreateWindow

Spec == Init /\ [][Next]_vars

(***************************************************************************)
(* Specifications.  Spec is the whole system.  The others keep main, the   *)
(* window procedure and the state as they are and restrict which events    *)
(* the platform, the user and the editor produce.                          *)
(***************************************************************************)
Startup == MainCreateWindow \/ MainShowWindow

Shutdown == WmCommandExit \/ WmDestroy \/ MessageLoopQuit

\* visibility: toggles, tray, settings, session, fullscreen ticks, shutdown
NextVis ==
    \/ Startup
    \/ Shutdown
    \/ WmTimer2
    \/ WmSettingChange
    \/ WmWtsSessionChange
    \/ WmHotkeyToggle
    \/ WmCommandToggle
    \/ TrayDoubleClick
    \/ ToggleHighContrast

SpecVis == Init /\ [][NextVis]_vars

\* desktop signals, with configuration reloads in between
NextDesk ==
    \/ Startup
    \/ SwitchDesktop
    \/ VdNotify
    \/ WmVdSwitched
    \/ WmTimer1
    \/ ExternalEdit
    \/ WatcherThreads
    \/ WmCfgChanged

SpecDesk == Init /\ [][NextDesk]_vars

\* configuration: external edits, reloads, inline edits, shutdown
NextCfg ==
    \/ Startup
    \/ Shutdown
    \/ ExternalEdit
    \/ WatcherThreads
    \/ WmCfgChanged
    \/ WmHotkeyEdit
    \/ WmCommandEdit
    \/ PromptReturn

SpecCfg == Init /\ [][NextCfg]_vars

\* labels: every event that reaches the configuration, the current desktop
\* or the rendered line, with high contrast off at startup and no history
NextLab ==
    \/ Startup
    \/ SwitchDesktop
    \/ VdNotify
    \/ WmVdSwitched
    \/ WmTimer1
    \/ ExternalEdit
    \/ WatcherThreads
    \/ WmCfgChanged
    \/ WmHotkeyEdit
    \/ WmCommandEdit
    \/ PromptReturn

InitLab == InitWith(Unobserved) /\ ~highContrast

SpecLab == InitLab /\ [][NextLab]_vars

\* inline edits with the events that arrive while the prompt is open; the
\* file is written by the program only
NextEdit ==
    \/ Startup
    \/ WmCommandEdit
    \/ PromptReturn
    \/ SwitchDesktop
    \/ VdNotify
    \/ WmVdSwitched
    \/ WmTimer2
    \/ WmCommandToggle
    \/ WatcherThreads
    \/ WmCfgChanged

InitEdit ==
    /\ InitWith(Unobserved)
    /\ ~highContrast
    /\ oldFile = FileAbsent
    /\ file \in {FileAbsent, FileJson(DocA)}

SpecEdit == InitEdit /\ [][NextEdit]_vars

\* Config values of every version, with and without labels, with a
\* snap-position key that the migration replaces or keeps
RoundTripConfigs ==
    {[desktops   |-> d,
      hotkeys    |-> [ConfigDefault.hotkeys EXCEPT !.snap_position = KeyChord(k),
                                                   !.edit_title.shift = sh],
      appearance |-> [DefaultAppearance EXCEPT !.hide_on_fullscreen = h],
      version    |-> v] :
        d \in {NoDesktops, "g1" :> [title |-> "A", description |-> "d"],
               "g2" :> [title |-> "", description |-> ""]},
        k \in SnapKeys \cup {"L"}, sh \in BOOLEAN, h \in BOOLEAN,
        v \in {NoneV, Some(0), Some(1)}}

\* save_atomic(&cfg, &paths) and then load_or_default(), both file operations
\* succeeding
SaveThenLoad ==
    /\ pc = "start"
    /\ LET ld == load_or_default(save_atomic(cfg, file, TRUE), oldFile, TRUE, TRUE)
       IN  /\ cfg' = ld.cfg
           /\ file' = ld.file
    /\ pc' = "loaded"
    /\ UNCHANGED <<hwndAlive, quitPosted, queue, prompts, current_guid, appFlags,
                   vd_thread, envVars, hkVars, wts, shown, rendered, chanVars,
                   last>>

InitRound == InitState(RoundTripConfigs, {FileAbsent}, Unobserved)

SpecRound == InitRound /\ [][SaveThenLoad]_vars

\* reloads in a row: nobody but the application writes labels.json, and the
\* watcher is notified any number of times
BurstFiles ==
    InitialFiles \cup {FileJson(DocOld), FileJson(MigrationDoc("S", "0"))}

NextBurst == Startup \/ Burst \/ WatcherThreads \/ WmCfgChanged

SpecBurst == InitFrom(BurstFiles, NoEvent) /\ [][NextBurst]_vars

\* fullscreen ticks between toggles and accessibility changes, the answers
\* of the platform kept in the history
NextFs ==
    \/ Startup
    \/ WmTimer2
    \/ WmCommandToggle
    \/ ToggleHighContrast
    \/ WmSettingChange

SpecFs == InitWith(Watching) /\ [][NextFs]_vars

\* the application's writes and its watcher: edits, external edits and
\* bursts as the user, the editor and the file system produce them; the
\* watcher threads run and the message loop dispatches what is posted
NextQuiet ==
    \/ Startup
    \/ WmCommandEdit
    \/ PromptReturn
    \/ ExternalEdit
    \/ Burst
    \/ WatcherThreads
    \/ WmCfgChanged

\* main's loop (GetMessageW, DispatchMessageW), and the loop of an open
\* prompt, take the message at the head of the queue
Dispatch == Dispatching /\ queue # <<>> /\ queue' = Tail(queue)

InitQuiet == InitWith(NoEvent) /\ ~highContrast

SpecQuiet ==
    /\ InitQuiet
    /\ [][NextQuiet]_vars
    /\ WF_vars(WatcherThreads)
    /\ WF_queue(Dispatch)

\* two start-ups, interleaved, and the shutdown of the first
NextInst ==
    \/ Startup
    \/ SecondStart
    \/ SecondGuard
    \/ SecondCreateWindow
    \/ Shutdown

SpecInst == InitWith(Unobserved) /\ [][NextInst]_vars

\* startup over the documents of MigrationFiles
InitLoad == InitFrom(MigrationFiles, NoEvent)

SpecLoad == InitLoad /\ [][Startup]_vars

(***************************************************************************)
(* Properties.                                                             *)
(***************************************************************************)
Created == pc \in {"created", "running", "ended"}

\* the three hide reasons allow the overlay to be seen
PolicyShows == visible /\ ~hide_for_accessibility /\ ~hide_for_fullscreen

\* C1: whenever refresh_visibility_now has run, the command it gave to
\* ShowWindow is SW_SHOW if and only if visible is true and both
\* hide_for_accessibility and hide_for_fullscreen are false.
C1_RefreshDecision ==
    last.cmd # "none" => (last.cmd = "SW_SHOW" <=> PolicyShows)

\* a fullscreen tick hid the overlay although the user wants it and no
\* accessibility reason holds
C1_Witness ==
    /\ last.kind = "WM_TIMER_2"
    /\ last.cmd = "SW_HIDE"
    /\ visible /\ ~hide_for_accessibility /\ hide_for_fullscreen

\* C2 (as claimed): once startup has completed, and after every handled
\* event, the window is shown if and only if the three flags allow it.
C2_ShownIffPolicy ==
    (pc = "running" /\ hwndAlive) => (shown <=> PolicyShows)

\* the line the overlay must carry for the current desktop: the stored
\* title, or "Desktop" when no title is stored or it is blank, then ":" and
\* the stored description
ExpectedLine ==
    LET has == current_guid \in DOMAIN cfg.desktops
        t == IF has THEN cfg.desktops[current_guid].title ELSE ""
        d == IF has THEN cfg.desktops[current_guid].description ELSE ""
    IN  (IF t \in {"", " "} THEN "Desktop" ELSE t) \o ":" \o d

\* C3: after startup and after every handled event the line last rendered
\* is the label the in-memory configuration holds for current_guid.
C3_RenderedIsCurrentLabel == Created => rendered = ExpectedLine

\* the overlay shows a label of desktop g2 that only an inline edit of its
\* title can have produced
C3_Witness ==
    /\ pc = "running"
    /\ current_guid = "g2"
    /\ activeDesktop = "g2"
    /\ rendered = "A:A"

\* C4 (as claimed): handling WM_CFG_CHANGED while labels.json does not parse
\* keeps the configuration, the rendered line and the hotkey
\* registrations.
C4_BadFileKeepsState ==
    [][(WmCfgChanged /\ file.kind # "absent" /\ ~Parses(file))
        => /\ cfg' = cfg
           /\ rendered' = rendered
           /\ registered' = registered]_vars

\* C5: no identifier is registered while its registration is live, and a
\* reload registers an identifier only after it has unregistered all three.
C5_OneRegistrationSet ==
    /\ ~regWhileLive
    /\ last.kind = "WM_CFG_CHANGED" =>
         \A i \in 1..Len(last.hk) :
            last.hk[i][1] = "register" =>
               \A id \in HkIds :
                  \E j \in 1..(i - 1) : last.hk[j] = <<"unregister", id>>

\* a reload has re-registered the hotkeys of a document in which two
\* identifiers share a chord: the second of them is not live
C5_Witness ==
    /\ last.kind = "WM_CFG_CHANGED"
    /\ Len(last.hk) = 6
    /\ registered["HK_TOGGLE"] # NoChord
    /\ registered["HK_EDIT_DESC"] = NoChord

\* C6: while visible is false, a session lock or unlock, a settings change
\* and a fullscreen tick leave visible false and the overlay hidden.
C6_HideIntentSurvives ==
    [][(~visible /\ (WmWtsSessionChange \/ WmSettingChange \/ WmTimer2))
        => (~visible' /\ ~shown')]_vars

\* the session was unlocked with high contrast off while the user had the
\* overlay toggled off: no hide reason but the user's is left, and the
\* overlay is hidden
C6_Witness ==
    /\ last.kind = "WTS_unlock"
    /\ ~visible
    /\ ~highContrast /\ ~hide_for_accessibility /\ ~hide_for_fullscreen
    /\ ~shown

\* C7: a desktop signal, from the notifier or from the poll timer, renders
\* once if it changes current_guid and not at all otherwise; handled right
\* after a desktop signal that observed the same desktop it changes nothing
\* and renders nothing, so the two signals render at most once.
C7_SecondSignalNoRender ==
    [][(WmVdSwitched \/ WmTimer1)
        => /\ last'.renders = (IF current_guid' # current_guid THEN 1 ELSE 0)
           /\ current_guid' = last'.seen
           /\ last'.again => /\ current_guid' = current_guid
                             /\ last'.renders = 0
                             /\ last'.first <= 1]_vars

\* a poll tick was handled right after another desktop signal for the same
\* desktop, and that first signal had rendered the new desktop's label
C7_Witness ==
    /\ last.again
    /\ last.kind = "WM_TIMER_1"
    /\ last.first = 1
    /\ last.renders = 0
    /\ current_guid = "g2"

\* C8 (as claimed): when the message loop has ended, the three hotkeys are
\* unregistered and the session-notification subscription is released.
C8_ReleasedAtLoopEnd ==
    pc = "ended" => (registered = NoRegs /\ ~wts)

\* C9 (as claimed): once PostQuitMessage has been called, no step but the
\* release done by WM_DESTROY changes the application state, the hotkey
\* registrations or the rendered line.
C9_IgnoredAfterShutdown ==
    [][(quitPosted /\ ~WmDestroy)
        => /\ cfg' = cfg
           /\ current_guid' = current_guid
           /\ appFlags' = appFlags
           /\ registered' = registered
           /\ rendered' = rendered]_vars

\* C10 (as claimed): when the window is gone the watcher threads have
\* ended, and WM_CFG_CHANGED is never posted to a destroyed window.
C10_ThreadsJoinedBeforeRelease ==
    /\ (Created /\ ~hwndAlive) => threads # "running"
    /\ ~deadPost

\* C11 (as claimed): while the session is locked, hide_for_accessibility is
\* true; a settings change between the lock and the unlock does not clear it.
C11_HiddenWhileLocked ==
    (Dispatching /\ sessionLocked) => hide_for_accessibility

\* C12 (as claimed): once the window is created the desktop poll timer is
\* running, whether or not the desktop event thread was started.
C12_PollAlwaysStarted ==
    Dispatching => PollTimer

\* C13 (as claimed): when WM_CREATE or WM_CFG_CHANGED has been handled and
\* one of the three registrations it made failed, the handler raised a
\* balloon.
C13_FailureNotified ==
    (last.kind \in {"WM_CREATE", "WM_CFG_CHANGED"}
       /\ \E id \in HkIds : registered[id] = NoChord)
    => last.balloon

Migrated(d) ==
    [d EXCEPT !.hotkeys.snap_position.key = IF @ \in {"S", "s"} THEN "L" ELSE @,
              !.version = "1"]

\* C15: loading a document whose version is absent, null or 0 yields its
\* fields with a snap-position key "S" replaced by "L" and version 1, and
\* that document is handed to save_atomic (the file holds it unless the
\* write failed); loading a document of version 1 yields its fields as they
\* are, a snap-position key "S" included, and leaves the file alone.
C15_Migration ==
    [][(MainCreateWindow /\ pc' = "created" /\ Parses(file)) =>
         LET d == file.doc
             new == IF d.version = "1" THEN d ELSE Migrated(d)
         IN  /\ cfg'.desktops = d.desktops
             /\ cfg'.appearance = d.appearance
             /\ cfg'.hotkeys = new.hotkeys
             /\ cfg'.version = Some(1)
             /\ IF d.version = "1" THEN file' = file
                ELSE file' \in {file, FileJson(new)}]_vars

\* a document that had the snap-position key "S" or "s" (no document of
\* MigrationFiles has "L") was loaded and written back with "L", version 1
C15_Witness ==
    /\ pc = "created"
    /\ file.kind = "json"
    /\ file.doc.hotkeys.snap_position.key = "L"
    /\ file.doc.version = "1"
    /\ cfg.hotkeys.snap_position.key = "L"
    /\ cfg.version = Some(1)

\* the fields of a Config that carry the user's settings
UserFields(c) == [desktops |-> c.desktops, hotkeys |-> c.hotkeys,
                  appearance |-> c.appearance]

\* the version migration of load_or_default applies to c
MigrationApplies(c) ==
    /\ c.version # Some(1)
    /\ eq_ignore_ascii_case(c.hotkeys.snap_position.key, "S")

\* C16 as stated: saving any Config and loading it again yields the same
\* desktop labels, hotkey chords and appearance.
C16_RoundTripAll ==
    [][SaveThenLoad => UserFields(cfg') = UserFields(cfg)]_vars

\* C16, amended: saving a Config and loading it again yields the same desktop
\* labels, hotkey chords and appearance unless its version is absent or 0 and
\* its snap-position key is "S" (ignoring case); in that case the loaded
\* Config differs in the snap-position key alone, which is "L".
C16_RoundTrip ==
    [][SaveThenLoad =>
         IF MigrationApplies(cfg)
         THEN UserFields(cfg') =
                  UserFields([cfg EXCEPT !.hotkeys.snap_position.key = "L"])
         ELSE UserFields(cfg') = UserFields(cfg)]_vars

\* a Config with a label, a description and the snap-position key "S" has
\* gone through the file and come back
C16_Witness ==
    /\ pc = "loaded"
    /\ "g1" \in DOMAIN cfg.desktops
    /\ cfg.desktops["g1"].description = "d"
    /\ cfg.hotkeys.snap_position.key = "S"
    /\ cfg.appearance.hide_on_fullscreen
    /\ file = FileJson(ToJson(cfg))

\* the chord the configuration c asks for under the identifier id
Wanted(c, id) ==
    IF id = "HK_EDIT_TITLE" THEN c.hotkeys.edit_title
    ELSE IF id = "HK_EDIT_DESC" THEN c.hotkeys.edit_description
    ELSE c.hotkeys.toggle_overlay

\* C17: a start-up that finds no configuration file (none of the old
\* application either) holds the default configuration, marked version 1
\* and handed to save_atomic; it asks for the registration of three chords,
\* pairwise distinct, raises no duplicate warning, holds no registration
\* other than those three, and renders once, for the startup desktop, the
\* default title "Desktop" with an empty description.
C17_FreshStart ==
    [][(/\ MainCreateWindow /\ pc' = "created"
        /\ file = FileAbsent /\ oldFile = FileAbsent) =>
         /\ cfg' = [ConfigDefault EXCEPT !.version = Some(1)]
         /\ file' \in {FileAbsent, FileJson(ToJson(cfg'))}
         /\ last'.hk = << <<"register", "HK_EDIT_TITLE">>,
                          <<"register", "HK_EDIT_DESC">>,
                          <<"register", "HK_TOGGLE">> >>
         /\ \A i, j \in HkIds : i # j => Wanted(cfg', i) # Wanted(cfg', j)
         /\ \A i \in HkIds : registered'[i] \in {Wanted(cfg', i), NoChord}
         /\ ~last'.balloon
         /\ current_guid' = activeDesktop
         /\ last'.renders = 1
         /\ rendered' = "Desktop:"]_vars

\* the window was created from the defaults: they are on disk with version
\* 1, the three default chords are registered, the default line is rendered
C17_Witness ==
    /\ pc = "created"
    /\ last.kind = "WM_CREATE"
    /\ oldFile = FileAbsent
    /\ cfg = [ConfigDefault EXCEPT !.version = Some(1)]
    /\ file = FileJson(ToJson(cfg))
    /\ \A i \in HkIds : registered[i] = Wanted(cfg, i)
    /\ rendered = "Desktop:"

\* C18: at most one instance owns an overlay window at any time, whatever
\* the interleaving of the two start-ups.
C18_AtMostOneWindow == ~(hwndAlive /\ second = "window")

\* a collaborator has failed and the failure is still visible: the watch
\* was not set up, a hotkey is not registered, or an edit is not on disk
CollaboratorFailed ==
    \/ threads = "failed"
    \/ \E id \in HkIds : registered[id] = NoChord
    \/ ~Parses(file)
    \/ Parses(file) /\ file.doc.desktops # cfg.desktops

\* C19: no handler ends the message loop because a collaborator failed: the
\* loop is left only for WM_QUIT, and with failures standing (watch not set
\* up, hotkey not registered, save failed) a command, and a fullscreen tick
\* that is due, are still handled.
C19_FailureDoesNotStop ==
    [][/\ pc = "running" => (pc' = "running" \/ (pc' = "ended" /\ quitPosted))
       /\ (Dispatching /\ CollaboratorFailed) =>
              /\ ENABLED WmCommandToggle
              /\ TimerDue => ENABLED WmTimer2]_vars

\* the watch was not set up, a hotkey was refused, an edit was confirmed and
\* its save failed; after that the overlay was toggled off and the desktop
\* switch to g2 was handled
C19_Witness ==
    /\ pc = "running"
    /\ threads = "failed"
    /\ registered["HK_EDIT_TITLE"] = NoChord
    /\ file = FileAbsent
    /\ cfg.desktops # NoDesktops
    /\ ~visible /\ ~shown
    /\ current_guid = "g2"
    /\ rendered = update_overlay_text(cfg, "g2")

\* the labels that a load of labels.json would produce
FileLabels == IF Parses(file) THEN file.doc.desktops ELSE NoDesktops

\* the labels in memory are not the ones on disk.  Without an external
\* editor this is the state after a confirmed edit whose save failed.
Unsaved == pc = "running" /\ cfg.desktops # FileLabels

\* C20: after a confirmed edit whose save failed the application keeps
\* running and the labels in memory stay as edited: they change only by a
\* further edit, until a save puts them on disk.
C20_UnsavedEditKept ==
    [][Unsaved => /\ pc' = "running"
                  /\ cfg'.desktops = cfg.desktops \/ PromptReturn]_vars

\* C21: a desktop signal (WM_VD_SWITCHED or the poll tick) leaves the three
\* visibility flags, the configuration, the file, the hotkey registrations and
\* the shown state of the window as they are, makes no hotkey call and gives
\* no ShowWindow command; when the active desktop is current_guid it also
\* leaves current_guid and the rendered line as they are and does not render.
C21_DesktopSignalFrame ==
    [][(WmVdSwitched \/ WmTimer1) =>
         /\ UNCHANGED <<pc, visible, hide_for_accessibility, hide_for_fullscreen,
                        cfg, file, registered, shown>>
         /\ last'.cmd = "none"
         /\ last'.hk = <<>>
         /\ activeDesktop = current_guid =>
                /\ UNCHANGED <<current_guid, rendered>>
                /\ last'.renders = 0]_vars

\* a desktop signal was handled with high contrast on: it moved current_guid
\* to g2 and rendered, and the accessibility flag is still set
C21_Witness ==
    /\ pc = "running"
    /\ last.kind \in DeskKinds
    /\ last.renders = 1
    /\ last.cmd = "none"
    /\ current_guid = "g2"
    /\ hide_for_accessibility
    /\ visible

\* the hotkey calls of a reload: three unregister calls, then three
\* register calls
ReloadCalls ==
    << <<"unregister", "HK_EDIT_TITLE">>, <<"unregister", "HK_EDIT_DESC">>,
       <<"unregister", "HK_TOGGLE">>, <<"register", "HK_EDIT_TITLE">>,
       <<"register", "HK_EDIT_DESC">>, <<"register", "HK_TOGGLE">> >>

\* C22: a reload of a file that parses leaves in memory the labels, the three
\* registered chords and the appearance of the document on disk, whatever the
\* configuration was before; it unregisters the three identifiers and then
\* registers them, so that each holds its new chord or nothing; it renders
\* once, the label of current_guid under the new configuration; current_guid,
\* the three visibility flags and the shown state are left as they are.
C22_ReloadReplaces ==
    [][(WmCfgChanged /\ Parses(file)) =>
         /\ cfg'.desktops = file.doc.desktops
         /\ \A id \in HkIds : Wanted(cfg', id) = Wanted(file.doc, id)
         /\ \A a \in RequiredAppearance :
                cfg'.appearance[a] = file.doc.appearance[a]
         /\ last'.hk = ReloadCalls
         /\ \A id \in HkIds : registered'[id] \in {Wanted(cfg', id), NoChord}
         /\ last'.renders = 1
         /\ rendered' = update_overlay_text(cfg', current_guid)
         /\ last'.cmd = "none"
         /\ UNCHANGED <<pc, current_guid, visible, hide_for_accessibility,
                        hide_for_fullscreen, shown>>]_vars

\* the hand-written old document was reloaded while g2 was current: its
\* label is in memory and rendered, the toggle chord is registered and the
\* chord that two identifiers share is held by one of them only
C22_Witness ==
    /\ pc = "running"
    /\ last.kind = "WM_CFG_CHANGED"
    /\ cfg.desktops = DocOld.desktops
    /\ current_guid = "g2"
    /\ rendered = "Desktop:A"
    /\ registered["HK_EDIT_TITLE"] = KeyChord("T")
    /\ registered["HK_EDIT_DESC"] = NoChord
    /\ registered["HK_TOGGLE"] = KeyChord("O")

\* the label of desktop g in the configuration c, absent labels being the
\* default one (unwrap_or_default)
LabelOf(c, g) == IF g \in DOMAIN c.desktops THEN c.desktops[g] ELSE DefaultLabel

\* C23: a confirmed edit replaces one field of the label of the snapshotted
\* desktop and nothing else of the configuration: the other field of that
\* label, the labels of the other desktops, the chords, the appearance and
\* the version stay; current_guid, the visibility flags and the
\* registrations stay; the configuration is handed to save_atomic and the
\* label of current_guid is rendered once.  A cancelled edit changes none of
\* these, leaves the file alone, renders nothing and gives no ShowWindow
\* command.
C23_EditFrame ==
    [][PromptReturn =>
         LET top == prompts[Len(prompts)]
             key == top[1]
         IN  /\ last'.kind = "EDIT_CONFIRMED" =>
                  /\ DOMAIN cfg'.desktops = DOMAIN cfg.desktops \cup {key}
                  /\ \A g \in Guids \ {key} : LabelOf(cfg', g) = LabelOf(cfg, g)
                  /\ IF top[2]
                     THEN LabelOf(cfg', key).description = LabelOf(cfg, key).description
                     ELSE LabelOf(cfg', key).title = LabelOf(cfg, key).title
                  /\ (IF top[2] THEN LabelOf(cfg', key).title
                      ELSE LabelOf(cfg', key).description) \in NewTexts
                  /\ cfg'.hotkeys = cfg.hotkeys
                  /\ cfg'.appearance = cfg.appearance
                  /\ cfg'.version = cfg.version
                  /\ file' \in {file, FileJson(ToJson(cfg'))}
                  /\ last'.renders = 1
                  /\ rendered' = update_overlay_text(cfg', current_guid)
                  /\ UNCHANGED <<pc, current_guid, visible, hide_for_accessibility,
                                 hide_for_fullscreen, registered>>
             /\ last'.kind = "EDIT_CANCELLED" =>
                  /\ last'.renders = 0
                  /\ last'.cmd = "none"
                  /\ UNCHANGED <<pc, cfg, file, fsPending, rendered, shown,
                                 current_guid, visible, hide_for_accessibility,
                                 hide_for_fullscreen, registered, queue>>]_vars

\* the description of g2 in the hand-written old document was kept when its
\* title was edited, and the result is on disk
C23_Witness ==
    /\ pc = "running"
    /\ last.kind = "EDIT_CONFIRMED"
    /\ LabelOf(cfg, "g2") = [title |-> "A", description |-> "A"]
    /\ file = FileJson(ToJson(cfg))

ToggleKinds == {"WM_HOTKEY_TOGGLE", "CMD_TOGGLE"}

\* the handlers that assign app.visible
UserActions == WmHotkeyToggle \/ WmCommandToggle \/ TrayDoubleClick

\* C24: visible is TRUE once the window is created; only the toggle hotkey,
\* the toggle command and the tray double-click change it; each toggle flips
\* it and the double-click sets it; each of the three ends with the ShowWindow
\* command that should_show decides; and a toggle handled right after a
\* toggle leaves the window shown or hidden as it was before the first.
C24_UserVisible ==
    [][/\ (MainCreateWindow /\ hwndAlive') => visible'
       /\ (hwndAlive /\ visible' # visible) => UserActions
       /\ (WmHotkeyToggle \/ WmCommandToggle) => visible' = ~visible
       /\ TrayDoubleClick => visible'
       /\ UserActions =>
              /\ last'.cmd = (IF PolicyShows' THEN "SW_SHOW" ELSE "SW_HIDE")
              /\ shown' = PolicyShows'
       /\ ((WmHotkeyToggle \/ WmCommandToggle) /\ last.kind \in ToggleKinds) =>
              shown' = last.was]_vars

\* C25: a reload handled right after a reload, the file having been written
\* by nobody but the application in between, leaves the configuration and
\* the rendered line as the first reload left them, and leaves every
\* registration as it was unless its chord is one that other applications
\* take and release.
C25_ReloadIdempotent ==
    [][(WmCfgChanged /\ last'.again) =>
         /\ cfg' = cfg
         /\ rendered' = rendered
         /\ \A id \in HkIds :
                registered'[id] # registered[id] =>
                    Wanted(cfg, id).key \in UNION OtherAppKeys]_vars

\* the hand-written old document, which the first load migrates, has been
\* reloaded twice in a row
C25_Witness ==
    /\ pc = "running"
    /\ last.kind = "WM_CFG_CHANGED"
    /\ last.again
    /\ cfg.desktops = DocOld.desktops
    /\ cfg.version = Some(1)
    /\ registered["HK_TOGGLE"] = KeyChord("O")

\* the rectangle rc covers the rectangle work within 2 pixels on each edge
Covers(rc, work) ==
    /\ rc.left <= work.left + 2
    /\ rc.top <= work.top + 2
    /\ rc.right >= work.right - 2
    /\ rc.bottom >= work.bottom - 2

\* C26: after a fullscreen tick hide_for_fullscreen is TRUE exactly when
\* there is a foreground window, it is not the overlay, and its rectangle
\* covers the work area within 2 pixels on each edge; the tick changes no
\* other field of the application state and ends with the ShowWindow
\* command that should_show decides.
C26_FullscreenTick ==
    [][WmTimer2 =>
         /\ hide_for_fullscreen' =
                (/\ last'.fg.win = "other"
                 /\ last'.fg.rectOk
                 /\ Covers(last'.fg.rc, last'.fg.work))
         /\ UNCHANGED <<pc, cfg, current_guid, visible, hide_for_accessibility,
                        registered, rendered, file>>
         /\ last'.cmd = (IF PolicyShows' THEN "SW_SHOW" ELSE "SW_HIDE")
         /\ shown' = PolicyShows']_vars

\* C27: a load, at start-up or on a reload, leaves a file that does not
\* parse as it is on disk.
C27_BadFileLeftAlone ==
    [][((MainCreateWindow \/ WmCfgChanged) /\ file.kind # "absent" /\ ~Parses(file))
         => file' = file]_vars

\* no notification is waiting in the watcher's channels and no message is
\* waiting in the queue
Quiet == fsPending = 0 /\ queue = <<>>

\* labels.json holds the configuration in memory, as save_atomic writes it
InSync == file = FileJson(ToJson(cfg))

\* C28: the save of a confirmed edit, and the save of a load that migrated
\* to version 1, leave on disk the configuration that is in memory; a reload
\* that finds it there writes nothing, causes no notification and changes
\* nothing in memory; and once the editor, the file system's bursts and the
\* user's confirmations have stopped, the notifications and the
\* WM_CFG_CHANGED messages run out and stay out.
C28_Quiesces ==
    /\ [][(PromptReturn /\ file' # file) => InSync']_vars
    /\ [][((WmCfgChanged \/ MainCreateWindow) /\ file' # file
             /\ file'.doc.version = "1") => InSync']_vars
    /\ [][(WmCfgChanged /\ InSync)
            => (file' = file /\ cfg' = cfg /\ fsPending' = fsPending)]_vars
    /\ (<>[][~(ExternalEdit \/ Burst \/ PromptReturn)]_vars) => <>[]Quiet

\* an edit was confirmed and saved, the reload that its notification caused
\* has been handled, and nothing is pending
C28_Witness ==
    /\ pc = "running"
    /\ threads = "running"
    /\ last.kind = "WM_CFG_CHANGED"
    /\ LabelOf(cfg, "g1").description = "A"
    /\ InSync
    /\ Quiet


\* an external editor's document is on disk and has not been loaded: the
\* program never writes a document without a version, and the configuration
\* in memory lacks a label of the file
ExternalPending ==
    /\ Parses(file)
    /\ file.doc.version = "missing"
    /\ \E g \in DOMAIN file.doc.desktops : g \notin DOMAIN cfg.desktops

\* C29: an external edit is not lost to an inline edit confirmed before the
\* reload: when the confirmed edit's save replaces a file that holds an
\* external document not yet loaded, the labels of that document (the edited
\* desktop's aside) and its hotkeys are in the file afterwards
C29_ExternalEditKept ==
    [][(PromptReturn /\ ExternalPending /\ file' # file)
         => /\ \A g \in DOMAIN file.doc.desktops \ {prompts[Len(prompts)][1]} :
                 /\ g \in DOMAIN file'.doc.desktops
                 /\ file'.doc.desktops[g] = file.doc.desktops[g]
            /\ \A k \in DOMAIN file.doc.hotkeys :
                 file'.doc.hotkeys[k] = file.doc.hotkeys[k]]_vars


\* inline edits; while the prompt is open the desktop is switched and an
\* editor puts the hand-written document in labels.json; the signals and the
\* reloads are handled at any time
NextSnap ==
    \/ Startup
    \/ WmCommandEdit
    \/ PromptReturn
    \/ (prompts # <<>> /\ SwitchDesktop)
    \/ VdNotify
    \/ WmVdSwitched
    \/ (prompts # <<>> /\ ExternalEdit /\ file' = FileJson(DocOld))
    \/ WatcherThreads
    \/ WmCfgChanged

InitSnap ==
    /\ InitFrom({FileJson(DocA)}, NoEvent)
    /\ ~highContrast
    /\ oldFile = FileAbsent
    /\ activeDesktop = "g1"

SpecSnap == InitSnap /\ [][NextSnap]_vars

\* C30: a confirmed edit goes to the desktop of the snapshot.  Whatever
\* current_guid and the configuration have become while the prompt was open,
\* the new text is one field of the label of the snapshotted desktop, the
\* other field of that label is the one the configuration holds when the
\* prompt returns, the chords are those of that configuration, the label of
\* a different current desktop is untouched, current_guid stays, and the
\* overlay line is the label of current_guid.
C30_EditGoesToSnapshot ==
    [][(PromptReturn /\ last'.kind = "EDIT_CONFIRMED") =>
         LET top == prompts[Len(prompts)]
             key == top[1]
         IN  /\ key \in DOMAIN cfg'.desktops
             /\ IF top[2]
                THEN /\ cfg'.desktops[key].title \in NewTexts
                     /\ cfg'.desktops[key].description
                            = LabelOf(cfg, key).description
                ELSE /\ cfg'.desktops[key].description \in NewTexts
                     /\ cfg'.desktops[key].title = LabelOf(cfg, key).title
             /\ cfg'.hotkeys = cfg.hotkeys
             /\ current_guid # key =>
                  /\ current_guid \in DOMAIN cfg'.desktops
                         <=> current_guid \in DOMAIN cfg.desktops
                  /\ LabelOf(cfg', current_guid) = LabelOf(cfg, current_guid)
             /\ current_guid' = current_guid
             /\ rendered' = update_overlay_text(cfg', current_guid)]_vars

\* an edit was confirmed for a desktop that is not the current one any more,
\* in a configuration that was reloaded while the prompt was open: the label
\* of the snapshotted desktop holds the new text beside the reloaded field,
\* and the overlay shows the label of the current desktop
C30_Witness ==
    /\ pc = "running"
    /\ last.kind = "EDIT_CONFIRMED"
    /\ last.seen # current_guid
    /\ current_guid = activeDesktop
    /\ cfg.hotkeys = FromJson(DocOld).hotkeys
    /\ LabelOf(cfg, last.seen) = [title |-> "A", description |-> "A"]
    /\ file = FileJson(ToJson(cfg))
    /\ rendered = update_overlay_text(cfg, current_guid)

====
